---- MODULE Spec2Model ----
(***************************************************************************)
(* TypedStorage (src/src/main.ts): a typed, prefixed accessor over the     *)
(* host's Storage objects, with a module-wide registry of claimed keys.    *)
(*                                                                         *)
(* JavaScript strings are modelled as sequences of one-character strings,  *)
(* so that prefix + key is sequence concatenation and the converters'      *)
(* parsers and printers work on characters.                                *)
(***************************************************************************)
EXTENDS Integers, Sequences, FiniteSets, TLC

VARIABLES
    takenKeys,   \* main.ts:8   Map<Storage, Set<string>>: a function on the stores seen so far
    instances,   \* the TypedStorage objects whose constructor returned: [storage, prefix, converters]
    data,        \* the content of each Storage object: store -> (raw key -> raw string)
    last         \* the call that was made last: its arguments, its result, the store writes
                 \* it made, and whether it repeats the call before it

vars == <<takenKeys, instances, data, last>>

----------------------------------------------------------------------------
(* Characters and strings *)

Digits == <<"0", "1", "2", "3", "4", "5", "6", "7", "8", "9">>

DigitChars == {Digits[i] : i \in 1..10}

DigitOf(c) == (CHOOSE i \in 1..10 : Digits[i] = c) - 1

WhiteSpace == {" ", "\t", "\n"}

Drop(s, n) == SubSeq(s, n + 1, Len(s))

Take(s, n) == SubSeq(s, 1, n)

StartsWith(s, p) == Len(s) >= Len(p) /\ Take(s, Len(p)) = p

RECURSIVE TrimStart(_)
TrimStart(s) ==
    IF s # <<>> /\ s[1] \in WhiteSpace THEN TrimStart(Tail(s)) ELSE s

\* the longest prefix of s made of decimal digits
RECURSIVE DigitPrefix(_)
DigitPrefix(s) ==
    IF s # <<>> /\ s[1] \in DigitChars THEN <<s[1]>> \o DigitPrefix(Tail(s)) ELSE <<>>

RECURSIVE DigitsToNat(_)
DigitsToNat(ds) ==
    IF ds = <<>> THEN 0 ELSE 10 * DigitsToNat(Take(ds, Len(ds) - 1)) + DigitOf(ds[Len(ds)])

RECURSIVE NatToDigits(_)
NatToDigits(n) ==
    IF n < 10 THEN <<Digits[n + 1]>> ELSE NatToDigits(n \div 10) \o <<Digits[(n % 10) + 1]>>

RECURSIVE Zeros(_)
Zeros(n) == IF n <= 0 THEN <<>> ELSE <<"0">> \o Zeros(n - 1)

\* n written with at least w digits
Pad(n, w) == Zeros(w - Len(NatToDigits(n))) \o NatToDigits(n)

----------------------------------------------------------------------------
(* JavaScript values.  Every value is a record [k, v]; k is the kind and   *)
(* v the payload, which is only compared between values of one kind.       *)
(* A finite number is the decimal v[1] * 10^v[2], normalised so that v[1]  *)
(* has no trailing zero: the digits Number.prototype.toString prints.      *)

Null == [k |-> "null", v |-> 0]

Bool(b) == [k |-> "boolean", v |-> b]

Str(s) == [k |-> "string", v |-> s]

NaN == [k |-> "NaN", v |-> 0]

Infinity(sign) == [k |-> "Infinity", v |-> sign]

RECURSIVE Normalise(_, _)
Normalise(m, e) ==
    IF m = 0 THEN <<0, 0>>
    ELSE IF m % 10 = 0 THEN Normalise(m \div 10, e + 1)
    ELSE <<m, e>>

Num(m, e) == [k |-> "number", v |-> Normalise(m, e)]

Date(ms) == [k |-> "date", v |-> ms]

InvalidDate == [k |-> "InvalidDate", v |-> 0]

Abs(n) == IF n < 0 THEN -n ELSE n

----------------------------------------------------------------------------
(* Number.prototype.toString(), Number.parseInt(s, 10), Number.parseFloat  *)

SignedExp(x) == (IF x < 0 THEN <<"-">> ELSE <<"+">>) \o NatToDigits(Abs(x))

\* ECMAScript Number::toString for the positive decimal with digits s and exponent e
PositiveToString(s, e) ==
    LET ds == NatToDigits(s)
        k  == Len(ds)
        n  == k + e
    IN  IF k <= n /\ n <= 21 THEN ds \o Zeros(n - k)
        ELSE IF 0 < n /\ n <= 21 THEN Take(ds, n) \o <<".">> \o Drop(ds, n)
        ELSE IF -6 < n /\ n <= 0 THEN <<"0", ".">> \o Zeros(-n) \o ds
        ELSE IF k = 1 THEN ds \o <<"e">> \o SignedExp(n - 1)
        ELSE <<ds[1], ".">> \o Tail(ds) \o <<"e">> \o SignedExp(n - 1)

NumberToString(x) ==
    CASE x.k = "NaN" -> <<"N", "a", "N">>
      [] x.k = "Infinity" ->
            (IF x.v < 0 THEN <<"-">> ELSE <<>>) \o <<"I", "n", "f", "i", "n", "i", "t", "y">>
      [] x.k = "number" ->
            IF x.v[1] = 0 THEN <<"0">>
            ELSE (IF x.v[1] < 0 THEN <<"-">> ELSE <<>>) \o PositiveToString(Abs(x.v[1]), x.v[2])

\* the digits without the zeros they end with
RECURSIVE StripZeros(_)
StripZeros(ds) ==
    IF ds # <<>> /\ ds[Len(ds)] = "0" THEN StripZeros(Take(ds, Len(ds) - 1)) ELSE ds

\* the number sign * ds * 10^e of a digit string ds: the zeros ds ends with go
\* to the exponent, so that a long literal such as 1 followed by twenty zeros is
\* read without computing its digits as one integer
Decimal(sign, ds, e) ==
    Num(sign * DigitsToNat(StripZeros(ds)), e + Len(ds) - Len(StripZeros(ds)))

\* the sign a numeric literal starts with, and the literal without it
SignOf(s) == IF s # <<>> /\ s[1] = "-" THEN -1 ELSE 1

Unsigned(s) == IF s # <<>> /\ s[1] \in {"+", "-"} THEN Tail(s) ELSE s

ParseInt10(value) ==
    LET s  == TrimStart(value)
        ds == DigitPrefix(Unsigned(s))
    IN  IF ds = <<>> THEN NaN ELSE Decimal(SignOf(s), ds, 0)

\* the exponent part at the head of s, if there is one: e or E, a sign, digits
ExponentOf(s) ==
    IF s # <<>> /\ s[1] \in {"e", "E"} /\ DigitPrefix(Unsigned(Tail(s))) # <<>>
    THEN SignOf(Tail(s)) * DigitsToNat(DigitPrefix(Unsigned(Tail(s))))
    ELSE 0

ParseFloat(value) ==
    LET s     == TrimStart(value)
        u     == Unsigned(s)
        int   == DigitPrefix(u)
        r1    == Drop(u, Len(int))
        dot   == r1 # <<>> /\ r1[1] = "."
        frac  == IF dot THEN DigitPrefix(Tail(r1)) ELSE <<>>
        r2    == IF dot THEN Drop(r1, 1 + Len(frac)) ELSE r1
    IN  IF StartsWith(u, <<"I", "n", "f", "i", "n", "i", "t", "y">>) THEN Infinity(SignOf(s))
        ELSE IF int = <<>> /\ frac = <<>> THEN NaN
        ELSE Decimal(SignOf(s), int \o frac, ExponentOf(r2) - Len(frac))

----------------------------------------------------------------------------
(* Date.prototype.toISOString() and new Date(string), on time values in    *)
(* milliseconds since 1970-01-01T00:00:00.000Z                             *)

MsPerDay == 86400000

\* the civil date <<year, month, day>> of a day number (days since 1970-01-01)
CivilFromDays(days) ==
    LET z   == days + 719468
        era == z \div 146097
        doe == z - era * 146097
        yoe == (doe - doe \div 1460 + doe \div 36524 - doe \div 146096) \div 365
        doy == doe - (365 * yoe + yoe \div 4 - yoe \div 100)
        mp  == (5 * doy + 2) \div 153
        d   == doy - (153 * mp + 2) \div 5 + 1
        m   == IF mp < 10 THEN mp + 3 ELSE mp - 9
    IN  <<yoe + era * 400 + (IF m <= 2 THEN 1 ELSE 0), m, d>>

DaysFromCivil(year, m, d) ==
    LET y   == IF m <= 2 THEN year - 1 ELSE year
        era == y \div 400
        yoe == y - era * 400
        doy == (153 * (IF m > 2 THEN m - 3 ELSE m + 9) + 2) \div 5 + d - 1
        doe == yoe * 365 + yoe \div 4 - yoe \div 100 + doy
    IN  era * 146097 + doe - 719468

IsLeap(y) == y % 4 = 0 /\ (y % 100 # 0 \/ y % 400 = 0)

DaysInMonth(y, m) ==
    IF m = 2 THEN (IF IsLeap(y) THEN 29 ELSE 28)
    ELSE IF m \in {4, 6, 9, 11} THEN 30 ELSE 31

\* YYYY-MM-DDTHH:mm:ss.sssZ, for the years 0000..9999
ToISOString(ms) ==
    LET c == CivilFromDays(ms \div MsPerDay)
        t == ms % MsPerDay
    IN  Pad(c[1], 4) \o <<"-">> \o Pad(c[2], 2) \o <<"-">> \o Pad(c[3], 2) \o <<"T">>
        \o Pad(t \div 3600000, 2) \o <<":">> \o Pad((t \div 60000) % 60, 2) \o <<":">>
        \o Pad((t \div 1000) % 60, 2) \o <<".">> \o Pad(t % 1000, 3) \o <<"Z">>

AllDigits(s) == \A i \in 1..Len(s) : s[i] \in DigitChars

\* new Date(value): the time value of a string in the format toISOString
\* writes; a string that is no date gives the invalid date.  (The shorter ISO
\* forms and the host's legacy formats are not stored under any date field here.)
NewDate(value) ==
    IF /\ Len(value) = 24
       /\ AllDigits(SubSeq(value, 1, 4)) /\ value[5] = "-"
       /\ AllDigits(SubSeq(value, 6, 7)) /\ value[8] = "-"
       /\ AllDigits(SubSeq(value, 9, 10)) /\ value[11] = "T"
       /\ AllDigits(SubSeq(value, 12, 13)) /\ value[14] = ":"
       /\ AllDigits(SubSeq(value, 15, 16)) /\ value[17] = ":"
       /\ AllDigits(SubSeq(value, 18, 19)) /\ value[20] = "."
       /\ AllDigits(SubSeq(value, 21, 23)) /\ value[24] = "Z"
    THEN LET y  == DigitsToNat(SubSeq(value, 1, 4))
             mo == DigitsToNat(SubSeq(value, 6, 7))
             d  == DigitsToNat(SubSeq(value, 9, 10))
             h  == DigitsToNat(SubSeq(value, 12, 13))
             mi == DigitsToNat(SubSeq(value, 15, 16))
             s  == DigitsToNat(SubSeq(value, 18, 19))
             f  == DigitsToNat(SubSeq(value, 21, 23))
         IN  IF /\ mo \in 1..12 /\ d >= 1 /\ d <= DaysInMonth(y, mo)
                /\ mi <= 59 /\ s <= 59
                /\ (h <= 23 \/ (h = 24 /\ mi = 0 /\ s = 0 /\ f = 0))
             THEN Date(DaysFromCivil(y, mo, d) * MsPerDay
                       + h * 3600000 + mi * 60000 + s * 1000 + f)
             ELSE InvalidDate
    ELSE InvalidDate

----------------------------------------------------------------------------
(* Objects: a sequence of <<property name, value>> pairs in insertion      *)
(* order, no name twice                                                    *)

\* a canonical array index: "0", or digits that do not start with "0"
IsIndexName(name) ==
    name # <<>> /\ AllDigits(name) /\ (Len(name) = 1 \/ name[1] # "0")

RECURSIVE InsertByIndex(_, _)
InsertByIndex(sorted, name) ==
    IF sorted = <<>> THEN <<name>>
    ELSE IF DigitsToNat(name) < DigitsToNat(sorted[1]) THEN <<name>> \o sorted
    ELSE <<sorted[1]>> \o InsertByIndex(Tail(sorted), name)

RECURSIVE SortIndexNames(_)
SortIndexNames(names) ==
    IF names = <<>> THEN <<>>
    ELSE InsertByIndex(SortIndexNames(Tail(names)), names[1])

Names(obj) == [i \in 1..Len(obj) |-> obj[i][1]]

\* Object.keys(obj): the index names in ascending numeric order, then the
\* other names in insertion order (OrdinaryOwnPropertyKeys)
ObjectKeys(obj) ==
    SortIndexNames(SelectSeq(Names(obj), IsIndexName))
        \o SelectSeq(Names(obj), LAMBDA n : ~IsIndexName(n))

HasProperty(obj, name) == \E i \in 1..Len(obj) : obj[i][1] = name

\* obj[name]
Get(obj, name) == obj[CHOOSE i \in 1..Len(obj) : obj[i][1] = name][2]

----------------------------------------------------------------------------
(* The converters (main.ts:81-139).  A converter is a record [kind,        *)
(* enumTuple]; parse and stringify dispatch on the kind.                   *)

booleanConverter == [kind |-> "boolean", enumTuple |-> <<>>]

stringConverter == [kind |-> "string", enumTuple |-> <<>>]

enumConverterFactory(enumTuple) == [kind |-> "enum", enumTuple |-> enumTuple]

intConverter == [kind |-> "int", enumTuple |-> <<>>]

floatConverter == [kind |-> "float", enumTuple |-> <<>>]

isoDateConverter == [kind |-> "isoDate", enumTuple |-> <<>>]

booleanParse(value) ==
    CASE value = <<"0">> -> Bool(FALSE)
      [] value = <<"1">> -> Bool(TRUE)
      [] OTHER -> Null

\* Mutation of booleanStringify: String(value)
booleanToString(value) ==
    IF value.v THEN <<"t", "r", "u", "e">> ELSE <<"f", "a", "l", "s", "e">>

booleanStringify(value) == IF value.v THEN <<"1">> ELSE <<"0">>

enumParse(enumTuple, value) ==
    IF \E i \in 1..Len(enumTuple) : enumTuple[i] = value THEN Str(value) ELSE Null

intParse(value) ==
    LET num == ParseInt10(value) IN IF num.k = "NaN" THEN Null ELSE num

\* Mutation of floatParse: the string is read with Number.parseInt(value, 10)
floatParseInt(value) ==
    LET num == ParseInt10(value) IN IF num.k = "NaN" THEN Null ELSE num

floatParse(value) ==
    LET num == ParseFloat(value) IN IF num.k = "NaN" THEN Null ELSE num

isoDateParse(value) ==
    LET date == NewDate(value) IN IF date.k = "InvalidDate" THEN Null ELSE date

parse(converter, value) ==
    CASE converter.kind = "boolean" -> booleanParse(value)
      [] converter.kind = "string"  -> Str(value)
      [] converter.kind = "enum"    -> enumParse(converter.enumTuple, value)
      [] converter.kind = "int"     -> intParse(value)
      [] converter.kind = "float"   -> floatParse(value)
      [] converter.kind = "isoDate" -> isoDateParse(value)

\* toISOString throws a RangeError on the invalid date; nothing else throws
stringifyThrows(converter, value) ==
    converter.kind = "isoDate" /\ value.k = "InvalidDate"

stringify(converter, value) ==
    CASE converter.kind = "boolean" -> booleanStringify(value)
      [] converter.kind = "string"  -> value.v
      [] converter.kind = "enum"    -> value.v
      [] converter.kind = "int"     -> NumberToString(value)
      [] converter.kind = "float"   -> NumberToString(value)
      [] converter.kind = "isoDate" -> ToISOString(value.v)

----------------------------------------------------------------------------
(* The host's Storage objects.  A Storage is known by its identity, here   *)
(* its name; its content is a function from the raw keys it holds to raw   *)
(* strings.                                                                *)

Obj(o) == [k |-> "object", v |-> o]

Undefined == [k |-> "undefined", v |-> 0]

\* storage.getItem(key): the string, or null
StorageGetItem(content, key) ==
    IF key \in DOMAIN content THEN Str(content[key]) ELSE Null

\* storage.setItem(key, value), when the store accepts the write
StorageSetItem(content, key, value) ==
    [x \in DOMAIN content \cup {key} |-> IF x = key THEN value ELSE content[x]]

\* storage.removeItem(key)
StorageRemoveItem(content, key) ==
    [x \in DOMAIN content \ {key} |-> content[x]]

NoError == [name |-> "none", key |-> <<>>, from |-> ""]

QuotaExceededError == [name |-> "QuotaExceededError", key |-> <<>>, from |-> ""]

RangeError == [name |-> "RangeError", key |-> <<>>, from |-> ""]

TypeError == [name |-> "TypeError", key |-> <<>>, from |-> ""]

----------------------------------------------------------------------------
(* The registry (main.ts:8-24)                                             *)

\* Mutation of getTakenKey: the entry is made anew at every call
getTakenKeyFresh(taken, storage) ==
    [s \in DOMAIN taken \cup {storage} |-> IF s = storage THEN {} ELSE taken[s]]

\* getTakenKey(storage) creates the store's entry when there is none; this is
\* the map after the call, and the set returned is its value at storage
getTakenKey(taken, storage) ==
    IF storage \in DOMAIN taken THEN taken
    ELSE [s \in DOMAIN taken \cup {storage} |-> IF s = storage THEN {} ELSE taken[s]]

getStorageName(storage) ==
    CASE storage = "localStorage" -> "localStorage"
      [] storage = "sessionStorage" -> "sessionStorage"
      [] OTHER -> "<unknown Storage>"

\* new Error(`the key "${storeKey}" from ${getStorageName(storage)} is already taken.`)
KeyTakenError(storeKey, storage) ==
    [name |-> "Error", key |-> storeKey, from |-> getStorageName(storage)]

----------------------------------------------------------------------------
(* class TypedStorage (main.ts:25-80)                                      *)

\* Mutation of ClaimKeys: the test is made on the field name, without the prefix
RECURSIVE ClaimKeysUnprefixed(_, _, _, _)
ClaimKeysUnprefixed(takenField, storage, prefix, keys) ==
    IF keys = <<>> THEN [takenField |-> takenField, thrown |-> NoError]
    ELSE LET storeKey == prefix \o keys[1]
         IN  IF keys[1] \in takenField
             THEN [takenField |-> takenField, thrown |-> KeyTakenError(storeKey, storage)]
             ELSE ClaimKeysUnprefixed(takenField \cup {storeKey}, storage, prefix, Tail(keys))

\* The constructor's loop over Object.keys(converters), main.ts:47-56: the set
\* takenField as the loop leaves it, and what it threw
RECURSIVE ClaimKeys(_, _, _, _)
ClaimKeys(takenField, storage, prefix, keys) ==
    IF keys = <<>> THEN [takenField |-> takenField, thrown |-> NoError]
    ELSE LET storeKey == prefix \o keys[1]
         IN  IF storeKey \in takenField
             THEN [takenField |-> takenField, thrown |-> KeyTakenError(storeKey, storage)]
             ELSE ClaimKeys(takenField \cup {storeKey}, storage, prefix, Tail(keys))

\* Mutation of Constructor: when the prefix is left out the converters move to
\* their place but the prefix is not reset, so the object is used as the prefix
\* and prefix + key starts with its string form
ConstructorPrefixNotReset(taken, storage, arg2, arg3) ==
    LET swap       == arg2.k # "string"
        prefix     == IF swap THEN <<"[object Object]">> ELSE arg2.v
        converters == IF swap THEN arg2 ELSE arg3
    IN  IF converters.k = "undefined"
        THEN [takenKeys |-> taken, thrown |-> TypeError,
              this |-> [storage |-> storage, prefix |-> prefix, converters |-> <<>>]]
        ELSE LET created == getTakenKey(taken, storage)
                 loop    == ClaimKeys(created[storage], storage, prefix,
                                      ObjectKeys(converters.v))
             IN  [takenKeys |-> [created EXCEPT ![storage] = loop.takenField],
                  thrown |-> loop.thrown,
                  this |-> [storage |-> storage, prefix |-> prefix,
                            converters |-> converters.v]]

\* new TypedStorage(storage, prefix, converters), main.ts:31-57, called with
\* the second and third arguments arg2 and arg3 (undefined when left out):
\* the registry after the call, what the call threw, and the object made
Constructor(taken, storage, arg2, arg3) ==
    LET swap       == arg2.k # "string"
        prefix     == IF swap THEN <<>> ELSE arg2.v
        converters == IF swap THEN arg2 ELSE arg3
    IN  IF converters.k = "undefined"
        THEN [takenKeys |-> taken, thrown |-> TypeError,
              this |-> [storage |-> storage, prefix |-> prefix, converters |-> <<>>]]
        ELSE LET created == getTakenKey(taken, storage)
                 loop    == ClaimKeys(created[storage], storage, prefix,
                                      ObjectKeys(converters.v))
             IN  [takenKeys |-> [created EXCEPT ![storage] = loop.takenField],
                  thrown |-> loop.thrown,
                  this |-> [storage |-> storage, prefix |-> prefix,
                            converters |-> converters.v]]

\* JavaScript's ToBoolean
Truthy(value) ==
    /\ value.k \notin {"null", "undefined", "NaN"}
    /\ value # Bool(FALSE)
    /\ value # Str(<<>>)
    /\ ~(value.k = "number" /\ value.v[1] = 0)

\* Mutation of getItem: the test is !item, so the empty string counts as no item
getItemFalsy(content, this, key) ==
    LET item == StorageGetItem(content, this.prefix \o key)
    IN  IF ~Truthy(item) THEN Null
        ELSE parse(Get(this.converters, key), item.v)

\* getItem(key), main.ts:58-62, on the store content it reads
getItem(content, this, key) ==
    LET item == StorageGetItem(content, this.prefix \o key)
    IN  IF item.k \in {"null", "undefined"} THEN Null
        ELSE parse(Get(this.converters, key), item.v)

\* Mutation of hasItem: the test is !!this.getItem(key)
hasItemTruthy(content, this, key) == Truthy(getItem(content, this, key))

\* hasItem(key), main.ts:63-65: this.getItem(key) != null
hasItem(content, this, key) ==
    getItem(content, this, key).k \notin {"null", "undefined"}

\* Mutation of setItem: the write goes to the field name, without the prefix
setItemUnprefixed(content, this, key, value, accepts) ==
    LET converter == Get(this.converters, key)
    IN  IF stringifyThrows(converter, value)
        THEN [content |-> content, thrown |-> RangeError, writes |-> <<>>]
        ELSE IF ~accepts
        THEN [content |-> content, thrown |-> QuotaExceededError, writes |-> <<>>]
        ELSE [content |-> StorageSetItem(content, key, stringify(converter, value)),
              thrown |-> NoError,
              writes |-> << <<key, stringify(converter, value)>> >>]

\* setItem(key, value), main.ts:66-71; accepts says whether the store takes
\* the write or throws.  The content after the call, what it threw, and the
\* writes the store took.
setItem(content, this, key, value, accepts) ==
    LET converter == Get(this.converters, key)
    IN  IF stringifyThrows(converter, value)
        THEN [content |-> content, thrown |-> RangeError, writes |-> <<>>]
        ELSE IF ~accepts
        THEN [content |-> content, thrown |-> QuotaExceededError, writes |-> <<>>]
        ELSE [content |-> StorageSetItem(content, this.prefix \o key,
                                         stringify(converter, value)),
              thrown |-> NoError,
              writes |-> << <<this.prefix \o key, stringify(converter, value)>> >>]

\* Mutation of removeItem: the field name is removed, without the prefix
removeItemUnprefixed(content, this, key) == StorageRemoveItem(content, key)

\* removeItem(key), main.ts:72-74
removeItem(content, this, key) == StorageRemoveItem(content, this.prefix \o key)

\* Mutation of SetDefaultsLoop: every key is written, set or not
RECURSIVE SetDefaultsLoopAlways(_, _, _, _, _, _)
SetDefaultsLoopAlways(content, this, body, keys, failAt, writes) ==
    IF keys = <<>> THEN [content |-> content, thrown |-> NoError, writes |-> writes]
    ELSE LET set == setItem(content, this, keys[1], Get(body, keys[1]), failAt # 1)
         IN  IF set.thrown # NoError
             THEN [content |-> set.content, thrown |-> set.thrown, writes |-> writes]
             ELSE SetDefaultsLoopAlways(set.content, this, body, Tail(keys), failAt - 1,
                                        writes \o set.writes)

\* setDefaults(body), main.ts:75-79: the loop over the keys still to visit.
\* The store rejects the write of the key at position failAt of the visit
\* (none when failAt is 0), if the loop writes it.
RECURSIVE SetDefaultsLoop(_, _, _, _, _, _)
SetDefaultsLoop(content, this, body, keys, failAt, writes) ==
    IF keys = <<>> THEN [content |-> content, thrown |-> NoError, writes |-> writes]
    ELSE IF hasItem(content, this, keys[1])
    THEN SetDefaultsLoop(content, this, body, Tail(keys), failAt - 1, writes)
    ELSE LET set == setItem(content, this, keys[1], Get(body, keys[1]), failAt # 1)
         IN  IF set.thrown # NoError
             THEN [content |-> set.content, thrown |-> set.thrown, writes |-> writes]
             ELSE SetDefaultsLoop(set.content, this, body, Tail(keys), failAt - 1,
                                  writes \o set.writes)

\* Mutation of setDefaults: a failed call puts the store back as it found it
setDefaultsRollback(content, this, body, failAt) ==
    LET done == SetDefaultsLoop(content, this, body, ObjectKeys(body), failAt, <<>>)
    IN  IF done.thrown = NoError THEN done
        ELSE [content |-> content, thrown |-> done.thrown, writes |-> <<>>]

\* Mutation of setDefaults: the fields are visited in insertion order
setDefaultsInsertionOrder(content, this, body, failAt) ==
    SetDefaultsLoop(content, this, body, Names(body), failAt, <<>>)

setDefaults(content, this, body, failAt) ==
    SetDefaultsLoop(content, this, body, ObjectKeys(body), failAt, <<>>)

----------------------------------------------------------------------------
(* The calls the model makes                                               *)

MaxInstances == 2

Stores == {"localStorage", "sessionStorage"}

\* the schemas of the registry model: "p" + "x" and "" + "px" are one raw key
Flag == << <<<<"x">>, booleanConverter>> >>

Pair == << <<<<"p", "x">>, stringConverter>>, <<<<"x">>, booleanConverter>> >>

\* the schemas of the converter model.  Object.keys visits "1" first; the
\* schemas share that name, so one of them at a time holds the store
Scores == << <<<<"n">>, intConverter>>, <<<<"1">>, floatConverter>> >>

Theme == enumConverterFactory(<< <<"d", "a", "r", "k">>, <<"l", "i", "g", "h", "t">> >>)

Profile == << <<<<"t">>, isoDateConverter>>, <<<<"1">>, Theme>> >>

Settings == << <<<<"b">>, booleanConverter>>, <<<<"1">>, stringConverter>> >>

\* new TypedStorage(storage, converters) and new TypedStorage(storage, prefix, converters)
CallsOf(stores, prefixes, schemas) ==
    {<<s, Obj(c), Undefined>> : s \in stores, c \in schemas}
        \cup {<<s, Str(p), Obj(c)>> : s \in stores, p \in prefixes, c \in schemas}

RegistryCalls ==
    CallsOf({"localStorage"}, {<<>>, <<"p">>}, {Flag, Pair})
        \cup CallsOf({"sessionStorage"}, {<<>>, <<"p">>}, {Flag})

TypedCalls == CallsOf({"localStorage"}, {<<>>}, {Scores, Profile, Settings})

Numbers == {Num(0, 0), Num(5, 0), Num(-15, -1), Num(1, 21), Infinity(1), NaN}

\* the values a field's type admits
TypeValues(converter) ==
    CASE converter.kind = "boolean" -> {Bool(FALSE), Bool(TRUE)}
      [] converter.kind = "string"  -> {Str(<<>>), Str(<<"a", "b">>)}
      [] converter.kind = "enum"    ->
            {Str(converter.enumTuple[i]) : i \in 1..Len(converter.enumTuple)}
      [] converter.kind = "int"     -> Numbers
      [] converter.kind = "float"   -> Numbers
      [] converter.kind = "isoDate" -> {Date(0), Date(-1), InvalidDate}

\* the values the defaults of a field are drawn from
DefaultValues(converter) ==
    CASE converter.kind = "int"     -> {Num(5, 0), NaN}
      [] converter.kind = "float"   -> {Num(-15, -1), NaN}
      [] converter.kind = "isoDate" -> {Date(-1), InvalidDate}
      [] OTHER -> TypeValues(converter)

\* the objects over the given names of a schema, in every insertion order
RECURSIVE BodiesOver(_, _)
BodiesOver(converters, names) ==
    {<<>>} \cup UNION {
        UNION { { << <<n, v>> >> \o rest : rest \in BodiesOver(converters, names \ {n}) }
                : v \in DefaultValues(Get(converters, n)) }
        : n \in names }

Bodies(converters) ==
    BodiesOver(converters, {converters[i][1] : i \in 1..Len(converters)}) \ {<<>>}

\* what a page finds in its stores when it starts
NoContent == [s \in Stores |-> <<>>]

StaleContent ==
    [s \in Stores |->
        IF s = "localStorage"
        THEN (<<"n">> :> <<"4", "2", "a", "b", "c">>) @@ (<<"1">> :> <<"d", "a", "r">>)
             @@ (<<"t">> :> <<"a", "b", "c">>) @@ (<<"b">> :> <<"t", "r", "u", "e">>)
        ELSE <<>>]

----------------------------------------------------------------------------
(* The state machine                                                       *)

\* the record of a call; again says that the call before it was the same call,
\* on the same object with the same arguments, and returned
Call(op, self, storage, key, arg, result, thrown, writes) ==
    [op |-> op, self |-> self, storage |-> storage, key |-> key, arg |-> arg,
     result |-> result, thrown |-> thrown, writes |-> writes,
     again |-> /\ last.op = op /\ last.self = self /\ last.key = key
               /\ last.arg = arg /\ last.thrown = NoError]

NoInstance == [storage |-> "", prefix |-> <<>>, converters |-> <<>>]

Start ==
    [op |-> "start", self |-> NoInstance, storage |-> "", key |-> <<>>, arg |-> <<>>,
     result |-> Null, thrown |-> NoError, writes |-> <<>>, again |-> FALSE]

Init ==
    /\ takenKeys = <<>>
    /\ instances = {}
    /\ data = NoContent
    /\ last = Start

InitTyped ==
    /\ takenKeys = <<>>
    /\ instances = {}
    /\ data \in {NoContent, StaleContent}
    /\ last = Start

New(storage, arg2, arg3) ==
    /\ Cardinality(instances) < MaxInstances
    /\ LET made == Constructor(takenKeys, storage, arg2, arg3)
           ok   == made.thrown = NoError
       IN  /\ takenKeys' = made.takenKeys
           /\ instances' = IF ok THEN instances \cup {made.this} ELSE instances
           /\ last' = Call("new", IF ok THEN made.this ELSE NoInstance, storage, <<>>,
                           <<arg2, arg3>>, Null, made.thrown, <<>>)
    /\ UNCHANGED data

Fields(this) == {this.converters[j][1] : j \in 1..Len(this.converters)}

GetItem(this, key) ==
    /\ last' = Call("getItem", this, this.storage, key, <<>>,
                    getItem(data[this.storage], this, key), NoError, <<>>)
    /\ UNCHANGED <<takenKeys, instances, data>>

HasItem(this, key) ==
    /\ last' = Call("hasItem", this, this.storage, key, <<>>,
                    Bool(hasItem(data[this.storage], this, key)), NoError, <<>>)
    /\ UNCHANGED <<takenKeys, instances, data>>

SetItem(this, key, value, accepts) ==
    LET set == setItem(data[this.storage], this, key, value, accepts)
    IN  /\ data' = [data EXCEPT ![this.storage] = set.content]
        /\ last' = Call("setItem", this, this.storage, key, value, Null,
                        set.thrown, set.writes)
        /\ UNCHANGED <<takenKeys, instances>>

RemoveItem(this, key) ==
    /\ data' = [data EXCEPT ![this.storage] = removeItem(data[this.storage], this, key)]
    /\ last' = Call("removeItem", this, this.storage, key, <<>>, Null, NoError, <<>>)
    /\ UNCHANGED <<takenKeys, instances>>

SetDefaults(this, body, failAt) ==
    LET set == setDefaults(data[this.storage], this, body, failAt)
    IN  /\ data' = [data EXCEPT ![this.storage] = set.content]
        /\ last' = Call("setDefaults", this, this.storage, <<>>, body, Null,
                        set.thrown, set.writes)
        /\ UNCHANGED <<takenKeys, instances>>

\* the calls on the objects made; the store may reject any one write
Methods ==
    \/ \E this \in instances : \E key \in Fields(this) : GetItem(this, key)
    \/ \E this \in instances : \E key \in Fields(this) : HasItem(this, key)
    \/ \E this \in instances : \E key \in Fields(this) :
          \E value \in TypeValues(Get(this.converters, key)) :
             \E accepts \in BOOLEAN : SetItem(this, key, value, accepts)
    \/ \E this \in instances : \E key \in Fields(this) : RemoveItem(this, key)
    \/ \E this \in instances : \E body \in Bodies(this.converters) :
          \E failAt \in 0..Len(body) : SetDefaults(this, body, failAt)

Next ==
    \/ \E call \in RegistryCalls : New(call[1], call[2], call[3])
    \/ Methods

Spec == Init /\ [][Next]_vars

NextTyped ==
    \/ \E call \in TypedCalls : New(call[1], call[2], call[3])
    \/ Methods

SpecTyped == InitTyped /\ [][NextTyped]_vars

----------------------------------------------------------------------------
(* What the properties speak of                                            *)

\* the keys claimed for a store in a registry
TakenOf(taken, storage) == IF storage \in DOMAIN taken THEN taken[storage] ELSE {}

\* the effective keys of an object: prefix + field name
EffectiveKeys(this) == {this.prefix \o key : key \in Fields(this)}

\* the effective keys a constructor call asks for
KeysOfCall(call) ==
    LET prefix     == IF call[2].k = "string" THEN call[2].v ELSE <<>>
        converters == IF call[2].k = "string" THEN call[3].v ELSE call[2].v
    IN  {prefix \o converters[j][1] : j \in 1..Len(converters)}

\* the effective keys of the objects made on a store
OwnedKeys(storage) ==
    UNION {EffectiveKeys(this) : this \in {o \in instances : o.storage = storage}}

AllCalls == RegistryCalls \cup TypedCalls

----------------------------------------------------------------------------
(* C1, the part that holds: the objects made on one store have disjoint     *)
(* effective keys: a constructor call that asks for a key of an object     *)
(* made earlier on that store makes no object and throws the "already      *)
(* taken" error, which names a key the call asks for that the store's      *)
(* registry entry already holds and names the store; this holds too when   *)
(* the key arises from another prefix and field name.                      *)
C1_DisjointEffectiveKeys ==
    [][\A call \in AllCalls :
          New(call[1], call[2], call[3]) =>
             /\ KeysOfCall(call) \cap OwnedKeys(call[1]) # {} =>
                   /\ instances' = instances
                   /\ last'.thrown.name = "Error"
                   /\ last'.thrown.key \in KeysOfCall(call) \cap TakenOf(takenKeys, call[1])
                   /\ last'.thrown.from = call[1]
             /\ last'.thrown = NoError =>
                   /\ instances' # instances
                   /\ EffectiveKeys(last'.self) = KeysOfCall(call)
             /\ \A a \in instances' : \A b \in instances' :
                   (a # b /\ a.storage = b.storage) =>
                      EffectiveKeys(a) \cap EffectiveKeys(b) = {}
      ]_vars

(* C1 as stated: the objects made on one store have disjoint effective      *)
(* keys, and a constructor call that asks for a key of an object made      *)
(* earlier on that store makes no object and throws the "already taken"    *)
(* error naming a key of such an object that the call asks for.            *)
C1_ErrorNamesOwnedKey ==
    [][\A call \in AllCalls :
          New(call[1], call[2], call[3]) =>
             /\ KeysOfCall(call) \cap OwnedKeys(call[1]) # {} =>
                   /\ instances' = instances
                   /\ last'.thrown.name = "Error"
                   /\ last'.thrown.key \in KeysOfCall(call) \cap OwnedKeys(call[1])
                   /\ last'.thrown.from = call[1]
             /\ \A a \in instances' : \A b \in instances' :
                   (a # b /\ a.storage = b.storage) =>
                      EffectiveKeys(a) \cap EffectiveKeys(b) = {}
      ]_vars

\* a call without prefix was refused for the key "px", which the object with
\* prefix "p" and field "x" holds and the call asked for as field "px"
C1_Witness ==
    /\ last.op = "new"
    /\ last.thrown = KeyTakenError(<<"p", "x">>, "localStorage")
    /\ last.arg[1].k = "object"
    /\ \E this \in instances :
          this.storage = "localStorage" /\ this.prefix = <<"p">> /\ this.converters = Flag

(* C2: a constructor call that throws leaves every store's claimed keys as *)
(* they were before the call.                                              *)
C2_FailedConstructionClaimsNothing ==
    [][\A call \in AllCalls :
          (New(call[1], call[2], call[3]) /\ last'.thrown # NoError) =>
             \A s \in Stores : TakenOf(takenKeys', s) = TakenOf(takenKeys, s)
      ]_vars

----------------------------------------------------------------------------
(* What the properties of the methods speak of                             *)

RawKey(this, key) == this.prefix \o key

ConverterOf(this, key) == Get(this.converters, key)

\* the raw string setItem writes for a field of a body
Written(this, body, key) == stringify(ConverterOf(this, key), Get(body, key))

\* the store holds a string for the field that its converter parses
Parseable(content, this, key) ==
    /\ RawKey(this, key) \in DOMAIN content
    /\ parse(ConverterOf(this, key), content[RawKey(this, key)]) # Null

\* the raw key holds the same in both contents: the same string, or nothing
SameAt(pre, post, raw) ==
    /\ raw \in DOMAIN pre <=> raw \in DOMAIN post
    /\ raw \in DOMAIN pre => post[raw] = pre[raw]

\* the fields of the order that a call finds unset, in that order
Unset(content, this, order) ==
    SelectSeq(order, LAMBDA key : ~Parseable(content, this, key))

\* the store writes that set the given fields to their defaults
WritesOf(this, body, keys) ==
    [i \in 1..Len(keys) |-> <<RawKey(this, keys[i]), Written(this, body, keys[i])>>]

\* a setDefaults call that returned wrote, in the given order of the fields of
\* its body, the fields it found unset, and changed nothing else
DefaultsWritten(this, body, order, pre, post, writes) ==
    /\ writes = WritesOf(this, body, Unset(pre, this, order))
    /\ \A raw \in DOMAIN pre \cup DOMAIN post :
          IF \E i \in 1..Len(order) :
                raw = RawKey(this, order[i]) /\ ~Parseable(pre, this, order[i])
          THEN /\ raw \in DOMAIN post
               /\ \E i \in 1..Len(order) :
                     raw = RawKey(this, order[i]) /\ post[raw] = Written(this, body, order[i])
          ELSE SameAt(pre, post, raw)

OtherStoresSame(storage) == \A s \in Stores \ {storage} : data'[s] = data[s]

(* C3 as stated: a setDefaults call that returns has written, in the        *)
(* insertion order of its argument, exactly the fields for which hasItem   *)
(* was false, each with stringify of its default, and changed no other raw *)
(* key.                                                                    *)
C3_WritesInInsertionOrder ==
    [][(last'.op = "setDefaults" /\ last'.thrown = NoError) =>
          /\ DefaultsWritten(last'.self, last'.arg, Names(last'.arg),
                             data[last'.storage], data'[last'.storage], last'.writes)
          /\ OtherStoresSame(last'.storage)
      ]_vars

(* C3, amended: a setDefaults call that returns has written, in the order   *)
(* Object.keys gives the fields of its argument (index names ascending,    *)
(* then the others in insertion order), exactly the fields that held no    *)
(* parseable string, each with stringify of its default; a field holding a *)
(* parseable string keeps it, and no other raw key changes.                *)
C3_WritesInObjectKeysOrder ==
    [][(last'.op = "setDefaults" /\ last'.thrown = NoError) =>
          /\ DefaultsWritten(last'.self, last'.arg, ObjectKeys(last'.arg),
                             data[last'.storage], data'[last'.storage], last'.writes)
          /\ \A key \in Fields(last'.self) :
                hasItem(data[last'.storage], last'.self, key)
                   = Parseable(data[last'.storage], last'.self, key)
          /\ OtherStoresSame(last'.storage)
      ]_vars

\* setDefaults({n: 5, "1": -1.5}) returned having written "1" and then "n"
C3_Witness ==
    /\ last.op = "setDefaults"
    /\ last.thrown = NoError
    /\ Names(last.arg) = << <<"n">>, <<"1">> >>
    /\ last.writes = << <<<<"1">>, <<"-", "1", ".", "5">>>>, <<<<"n">>, <<"5">>>> >>


\* the step calls setDefaults right after the same call on the same object,
\* which returned
SecondSetDefaults == last'.op = "setDefaults" /\ last'.again

\* the default of the field parses back from the string written for it
ParsesBack(this, body, key) ==
    parse(ConverterOf(this, key), Written(this, body, key)) # Null

(* C4 as stated: a setDefaults(d) call that returns, made right after a     *)
(* setDefaults(d) call that returned, leaves the store as it is and has    *)
(* written no field.                                                       *)
C4_SecondCallWritesNothing ==
    [][(SecondSetDefaults /\ last'.thrown = NoError) =>
          /\ data' = data
          /\ last'.writes = <<>>
      ]_vars

(* C4, amended: a setDefaults(d) call right after a setDefaults(d) call     *)
(* that returned leaves the store as it is; it writes no field whose       *)
(* default parses back under the field's converter, so it writes nothing   *)
(* and returns when every default of d parses back.  (A default that does  *)
(* not parse back, NaN under the integer or float converter, is written    *)
(* again by every call.)                                                   *)
C4_SecondCallLeavesStore ==
    [][SecondSetDefaults =>
          /\ data' = data
          /\ \A i \in 1..Len(last'.writes) :
                \E key \in Fields(last'.self) :
                   /\ HasProperty(last'.arg, key)
                   /\ last'.writes[i][1] = RawKey(last'.self, key)
                   /\ ~ParsesBack(last'.self, last'.arg, key)
          /\ (\A j \in 1..Len(last'.arg) : ParsesBack(last'.self, last'.arg, last'.arg[j][1]))
                => (last'.writes = <<>> /\ last'.thrown = NoError)
      ]_vars

\* setDefaults({b: false, "1": ""}) has been called twice on a store that held
\* neither, and the second call wrote nothing
C4_Witness ==
    /\ last.op = "setDefaults"
    /\ last.again
    /\ last.thrown = NoError
    /\ last.writes = <<>>
    /\ last.arg = << <<<<"b">>, Bool(FALSE)>>, <<<<"1">>, Str(<<>>)>> >>
    /\ data[last.storage] = (<<"b">> :> <<"0">>) @@ (<<"1">> :> <<>>)

\* the values of a field's type that its converter is meant to store: any
\* boolean, any string, a member of the enumeration, an integer below 10^21 in
\* magnitude, a number that is not NaN, a valid date
LegalValues(converter) ==
    CASE converter.kind = "int" ->
            {x \in TypeValues(converter) :
                /\ x.k = "number"
                /\ x.v[2] >= 0
                /\ Len(NatToDigits(Abs(x.v[1]))) + x.v[2] <= 21}
      [] converter.kind = "float" -> {x \in TypeValues(converter) : x.k # "NaN"}
      [] converter.kind = "isoDate" -> {x \in TypeValues(converter) : x.k = "date"}
      [] OTHER -> TypeValues(converter)

(* C5: after a setItem(f, v) that returned, with v a legal value of the     *)
(* field's converter, getItem(f) gives v; and a getItem of a field whose   *)
(* raw key the store does not hold gave null.                              *)
C5_SetItemThenGetItem ==
    /\ (/\ last.op = "setItem"
        /\ last.thrown = NoError
        /\ last.arg \in LegalValues(ConverterOf(last.self, last.key)))
          => /\ getItem(data[last.storage], last.self, last.key) = last.arg
             /\ hasItem(data[last.storage], last.self, last.key)
    /\ (/\ last.op = "getItem"
        /\ RawKey(last.self, last.key) \notin DOMAIN data[last.storage])
          => last.result = Null

\* setItem("b", false) has stored "0", which getItem reads as false
C5_Witness ==
    /\ last.op = "setItem"
    /\ last.thrown = NoError
    /\ last.key = <<"b">>
    /\ last.arg = Bool(FALSE)
    /\ data[last.storage][<<"b">>] = <<"0">>
    /\ getItem(data[last.storage], last.self, last.key) = Bool(FALSE)

(* C6: a setItem that the store accepts writes stringify(value) under the   *)
(* raw key prefix + field and changes no other raw key of any store; and   *)
(* no setItem, removeItem or setDefaults of an object changes what getItem *)
(* gives on another object of the same store with disjoint effective keys. *)
C6_WritesOnlyOwnKey ==
    [][last'.op \in {"setItem", "removeItem", "setDefaults"} =>
          LET this == last'.self
              pre  == data[this.storage]
              post == data'[this.storage]
          IN  /\ last'.op = "setItem" =>
                    /\ \A raw \in (DOMAIN pre \cup DOMAIN post) \ {RawKey(this, last'.key)} :
                          SameAt(pre, post, raw)
                    /\ last'.thrown = NoError =>
                          /\ RawKey(this, last'.key) \in DOMAIN post
                          /\ post[RawKey(this, last'.key)]
                                = stringify(ConverterOf(this, last'.key), last'.arg)
                          /\ last'.writes = << <<RawKey(this, last'.key),
                                                 post[RawKey(this, last'.key)]>> >>
                    /\ last'.thrown # NoError => SameAt(pre, post, RawKey(this, last'.key))
              /\ \A other \in instances \ {this} :
                    (/\ other.storage = this.storage
                     /\ EffectiveKeys(other) \cap EffectiveKeys(this) = {})
                       => \A key \in Fields(other) :
                             getItem(post, other, key) = getItem(pre, other, key)
              /\ OtherStoresSame(this.storage)
      ]_vars

\* the object with prefix "p" has set x to true, stored as "1" under "px", and
\* the object without prefix on the same store still reads its x as null
C6_Witness ==
    /\ last.op = "setItem"
    /\ last.self.prefix = <<"p">>
    /\ last.key = <<"x">>
    /\ last.arg = Bool(TRUE)
    /\ data[last.storage] = (<<"p", "x">> :> <<"1">>)
    /\ \E other \in instances :
          /\ other.storage = last.storage
          /\ other.prefix = <<>>
          /\ getItem(data[last.storage], other, <<"x">>) = Null

(* C7: getItem gives null when the store holds nothing under prefix +       *)
(* field, and the converter's parse of the stored string otherwise, which  *)
(* is null when the string is not parseable; the call changes neither the  *)
(* stores nor the registry.                                                *)
C7_GetItemReadsAndParses ==
    [][last'.op = "getItem" =>
          LET this    == last'.self
              content == data[this.storage]
              raw     == RawKey(this, last'.key)
          IN  /\ UNCHANGED <<data, takenKeys, instances>>
              /\ last'.thrown = NoError
              /\ raw \notin DOMAIN content => last'.result = Null
              /\ raw \in DOMAIN content =>
                    last'.result = parse(ConverterOf(this, last'.key), content[raw])
      ]_vars

\* getItem of the string field gave the empty string the store holds
C7_Witness ==
    /\ last.op = "getItem"
    /\ ConverterOf(last.self, last.key) = stringConverter
    /\ RawKey(last.self, last.key) \in DOMAIN data[last.storage]
    /\ data[last.storage][RawKey(last.self, last.key)] = <<>>
    /\ last.result = Str(<<>>)

(* C8: hasItem(f) is true exactly when getItem(f) is not null, that is      *)
(* when the store holds a string for f that the converter parses: true for *)
(* a stored false, 0 or empty string, false for an unparseable string.     *)
C8_HasItemIffGetItem ==
    /\ \A this \in instances : \A key \in Fields(this) :
          LET content == data[this.storage]
              got     == getItem(content, this, key)
          IN  /\ hasItem(content, this, key) = (got # Null)
              /\ hasItem(content, this, key) = Parseable(content, this, key)
              /\ got \in {Bool(FALSE), Num(0, 0), Str(<<>>)} => hasItem(content, this, key)
    /\ last.op = "hasItem" =>
          last.result = Bool(getItem(data[last.storage], last.self, last.key) # Null)

\* hasItem gave true for a stored 0
C8_Witness ==
    /\ last.op = "hasItem"
    /\ last.result = Bool(TRUE)
    /\ getItem(data[last.storage], last.self, last.key) = Num(0, 0)


\* setDefaults(body) gets as far as asking the store to write the field at
\* position failAt of its visit: the field is unset, and stringify threw for
\* no unset field up to it
AsksStoreAt(content, this, body, failAt) ==
    LET keys == ObjectKeys(body)
    IN  /\ ~Parseable(content, this, keys[failAt])
        /\ \A i \in 1..failAt :
              ~Parseable(content, this, keys[i])
                 => ~stringifyThrows(ConverterOf(this, keys[i]), Get(body, keys[i]))

(* C9: when the store rejects a write that setDefaults asks for, the call   *)
(* throws the store's error; the fields visited before keep what the call  *)
(* wrote to them, the rejected field and the fields after it hold what     *)
(* they held, and neither another raw key nor the registry changes.        *)
C9_RejectedWriteStopsSetDefaults ==
    [][\A this \in instances : \A body \in Bodies(this.converters) :
          \A failAt \in 1..Len(body) :
             (/\ last'.op = "setDefaults" /\ last'.self = this /\ last'.arg = body
              /\ SetDefaults(this, body, failAt)
              /\ AsksStoreAt(data[this.storage], this, body, failAt)) =>
                LET keys == ObjectKeys(body)
                    pre  == data[this.storage]
                    post == data'[this.storage]
                    raws == {RawKey(this, keys[i]) : i \in 1..Len(keys)}
                IN  /\ last'.thrown = QuotaExceededError
                    /\ last'.writes
                          = WritesOf(this, body, Unset(pre, this, SubSeq(keys, 1, failAt - 1)))
                    /\ \A i \in 1..(failAt - 1) :
                          IF Parseable(pre, this, keys[i])
                          THEN SameAt(pre, post, RawKey(this, keys[i]))
                          ELSE /\ RawKey(this, keys[i]) \in DOMAIN post
                               /\ post[RawKey(this, keys[i])] = Written(this, body, keys[i])
                    /\ \A i \in failAt..Len(keys) : SameAt(pre, post, RawKey(this, keys[i]))
                    /\ \A raw \in (DOMAIN pre \cup DOMAIN post) \ raws : SameAt(pre, post, raw)
                    /\ OtherStoresSame(this.storage)
                    /\ UNCHANGED <<takenKeys, instances>>
      ]_vars

\* setDefaults({n: 5, "1": -1.5}) on an empty store wrote "1", was refused the
\* write of "n" and threw: "1" holds its default and "n" holds nothing
C9_Witness ==
    /\ last.op = "setDefaults"
    /\ last.thrown = QuotaExceededError
    /\ Names(last.arg) = << <<"n">>, <<"1">> >>
    /\ last.writes = << <<<<"1">>, <<"-", "1", ".", "5">>>> >>
    /\ data[last.storage] = (<<"1">> :> <<"-", "1", ".", "5">>)

(* C10: removeItem returns, after it the store holds nothing under prefix + *)
(* field, whether it did before or not, every other raw key holds what it  *)
(* held, and getItem and hasItem of the field give null and false.         *)
C10_RemoveItemRemovesOwnKey ==
    [][last'.op = "removeItem" =>
          LET this == last'.self
              pre  == data[this.storage]
              post == data'[this.storage]
              raw  == RawKey(this, last'.key)
          IN  /\ last'.thrown = NoError
              /\ raw \notin DOMAIN post
              /\ \A other \in (DOMAIN pre \cup DOMAIN post) \ {raw} : SameAt(pre, post, other)
              /\ OtherStoresSame(this.storage)
              /\ getItem(post, this, last'.key) = Null
              /\ ~hasItem(post, this, last'.key)
      ]_vars

\* the object with prefix "p" has removed its field "px" twice in a row; the
\* field "x", stored under "px", is still there
C10_Witness ==
    /\ last.op = "removeItem"
    /\ last.again
    /\ last.self.prefix = <<"p">>
    /\ last.key = <<"p", "x">>
    /\ DOMAIN data[last.storage] = {<<"p", "x">>}

----------------------------------------------------------------------------
(* C11: the keys claimed for a store only grow: every step keeps each key   *)
(* claimed that was claimed; a getItem, hasItem, setItem, removeItem or    *)
(* setDefaults call leaves the registry as it is; and a constructor call   *)
(* that asks for a key claimed for its store makes no object and throws    *)
(* the "already taken" error.                                              *)
C11_ClaimedKeysOnlyGrow ==
    [][/\ \A s \in Stores : TakenOf(takenKeys, s) \subseteq TakenOf(takenKeys', s)
       /\ last'.op \in {"getItem", "hasItem", "setItem", "removeItem", "setDefaults"}
             => takenKeys' = takenKeys
       /\ \A call \in AllCalls :
             (/\ New(call[1], call[2], call[3])
              /\ KeysOfCall(call) \cap TakenOf(takenKeys, call[1]) # {}) =>
                /\ last'.thrown.name = "Error"
                /\ last'.thrown.from = call[1]
                /\ instances' = instances
      ]_vars

\* "x" has been removed twice from sessionStorage through the object that
\* claimed it; the store holds nothing and the key is still claimed
C11_Witness ==
    /\ last.op = "removeItem"
    /\ last.again
    /\ last.storage = "sessionStorage"
    /\ last.self.prefix = <<>>
    /\ last.key = <<"x">>
    /\ data["sessionStorage"] = <<>>
    /\ <<"x">> \in TakenOf(takenKeys, "sessionStorage")

----------------------------------------------------------------------------
\* the raw keys at which two contents of a store differ
ChangedAt(pre, post) ==
    {raw \in DOMAIN pre \cup DOMAIN post : ~SameAt(pre, post, raw)}

(* C12: a constructor call that leaves the prefix out does what the call    *)
(* with the empty string as prefix does in the same state: the same keys   *)
(* are claimed, the same error is thrown, the same object is made, and its *)
(* effective keys are its field names; so a call of either form is refused *)
(* for a field that an object with the empty prefix holds on that store.   *)
(* A getItem of an object with the empty prefix reads the raw key equal to *)
(* the field name, and its setItem, removeItem and setDefaults write and   *)
(* change raw keys equal to field names only.                              *)
C12_OmittedPrefixIsEmptyPrefix ==
    [][/\ \A call \in AllCalls :
             (call[2].k = "object" /\ New(call[1], call[2], call[3])) =>
                LET same == Constructor(takenKeys, call[1], Str(<<>>), call[2])
                IN  /\ takenKeys' = same.takenKeys
                    /\ last'.thrown = same.thrown
                    /\ last'.thrown = NoError =>
                          /\ last'.self = same.this
                          /\ EffectiveKeys(last'.self) = Fields(last'.self)
                          /\ TakenOf(takenKeys', call[1])
                                = TakenOf(takenKeys, call[1]) \cup Fields(last'.self)
       /\ \A call \in AllCalls :
             (/\ New(call[1], call[2], call[3])
              /\ (call[2].k = "object" \/ (call[2].k = "string" /\ call[2].v = <<>>))
              /\ \E this \in instances :
                    /\ this.storage = call[1]
                    /\ this.prefix = <<>>
                    /\ Fields(this) \cap KeysOfCall(call) # {}) =>
                /\ last'.thrown.name = "Error"
                /\ instances' = instances
       /\ (last'.op \in {"getItem", "setItem", "removeItem", "setDefaults"}
              /\ last'.self.prefix = <<>>) =>
             LET this == last'.self
                 pre  == data[this.storage]
                 post == data'[this.storage]
             IN  /\ ChangedAt(pre, post) \subseteq Fields(this)
                 /\ \A i \in 1..Len(last'.writes) : last'.writes[i][1] \in Fields(this)
                 /\ last'.op \in {"setItem", "removeItem"} =>
                       ChangedAt(pre, post) \subseteq {last'.key}
                 /\ (last'.op = "setItem" /\ last'.thrown = NoError) =>
                       /\ last'.key \in DOMAIN post
                       /\ post[last'.key] = stringify(ConverterOf(this, last'.key), last'.arg)
                 /\ last'.op = "removeItem" => last'.key \notin DOMAIN post
                 /\ last'.op = "getItem" =>
                       last'.result = IF last'.key \in DOMAIN pre
                                      THEN parse(ConverterOf(this, last'.key), pre[last'.key])
                                      ELSE Null
      ]_vars

\* new TypedStorage(localStorage, {px: string, x: boolean}), the prefix left
\* out, returned: the object has the empty prefix and "px" and "x" are claimed
C12_Witness ==
    /\ last.op = "new"
    /\ last.arg = <<Obj(Pair), Undefined>>
    /\ last.thrown = NoError
    /\ last.self.prefix = <<>>
    /\ TakenOf(takenKeys, "localStorage") = {<<"p", "x">>, <<"x">>}

----------------------------------------------------------------------------
(* The converters on their own: a value is stringified and the string is   *)
(* parsed, as setItem followed by getItem does (main.ts:61, 69)            *)

MaxMantissa == 20

MaxDay == 2

Mantissas == (-MaxMantissa)..MaxMantissa

Answer == enumConverterFactory(<< <<>>, <<"n", "o">>, <<"n", "o", "t">> >>)

BuiltIn ==
    {booleanConverter, stringConverter, intConverter, floatConverter, isoDateConverter,
     Theme, Answer}

\* the numbers tried: integers up to and beyond 10^21, where toString changes
\* to the exponent form, fractions down to the exponent form below 10^-6, the
\* infinities and NaN
RoundTripNumbers ==
    {Num(m, e) : m \in Mantissas, e \in {-9, -7, -6, -2, -1, 0, 1, 2, 19, 20, 21, 22, 300}}
        \cup {Infinity(1), Infinity(-1), NaN}

\* the times tried: the first and last milliseconds of the days around the epoch
RoundTripDates ==
    {Date(d * MsPerDay + t) :
        d \in (-MaxDay)..MaxDay, t \in {0, 1, 999, 1000, 59999, 3600000, 86399999}}
        \cup {InvalidDate}

RoundTripValues(converter) ==
    CASE converter.kind = "boolean" -> {Bool(FALSE), Bool(TRUE)}
      [] converter.kind = "string"  ->
            {Str(<<>>), Str(<<"0">>), Str(<<" ", "4", "2", "a">>), Str(<<"n", "u", "l", "l">>),
             Str(<<"N", "a", "N">>)}
      [] converter.kind = "enum"    ->
            {Str(converter.enumTuple[i]) : i \in 1..Len(converter.enumTuple)}
      [] converter.kind = "int"     -> RoundTripNumbers
      [] converter.kind = "float"   -> RoundTripNumbers
      [] converter.kind = "isoDate" -> RoundTripDates

\* converter.parse(converter.stringify(value))
RoundTrip(converter, value) ==
    /\ last' = IF stringifyThrows(converter, value)
               THEN Call("roundTrip", NoInstance, "", <<>>, <<converter, value>>,
                         Null, RangeError, <<>>)
               ELSE Call("roundTrip", NoInstance, "", stringify(converter, value),
                         <<converter, value>>,
                         parse(converter, stringify(converter, value)), NoError, <<>>)
    /\ UNCHANGED <<takenKeys, instances, data>>

NextConverters ==
    \E converter \in BuiltIn : \E value \in RoundTripValues(converter) :
       RoundTrip(converter, value)

SpecConverters == Init /\ [][NextConverters]_vars

\* the legal domain of a built-in converter: a boolean, a string, a member of
\* the enumeration, an integer below 10^21 in magnitude, a number that is not
\* NaN, a date with a time value
InLegalDomain(converter, value) ==
    CASE converter.kind = "boolean" -> value.k = "boolean"
      [] converter.kind = "string"  -> value.k = "string"
      [] converter.kind = "enum"    ->
            /\ value.k = "string"
            /\ \E i \in 1..Len(converter.enumTuple) : converter.enumTuple[i] = value.v
      [] converter.kind = "int"     ->
            /\ value.k = "number"
            /\ value.v[2] >= 0
            /\ Len(NatToDigits(Abs(value.v[1]))) + value.v[2] <= 21
      [] converter.kind = "float"   -> value.k \in {"number", "Infinity"}
      [] converter.kind = "isoDate" -> value.k = "date"

(* C13: for every built-in converter and every value of its legal domain,   *)
(* stringify returns and parse of the string it returns is the value, not  *)
(* null.                                                                   *)
C13_ParseOfStringifyIsValue ==
    (last.op = "roundTrip" /\ InLegalDomain(last.arg[1], last.arg[2])) =>
        /\ last.thrown = NoError
        /\ last.result.k # "null"
        /\ last.result.k = last.arg[2].k
        /\ last.result = last.arg[2]

\* the integer 2 * 10^20, the largest power of ten times 2 that toString writes
\* in full, went through the integer converter as "2" and twenty zeros
C13_Witness ==
    /\ last.op = "roundTrip"
    /\ last.arg = <<intConverter, Num(2, 20)>>
    /\ Len(last.key) = 21
    /\ last.result = Num(2, 20)

====
